---- MODULE Spec2Model ----
(***************************************************************************)
(* A model of the hypergo game core (src/src/game/mod.rs) over the flat    *)
(* isometry algebra (src/src/geometry/euclidian.rs).                       *)
(*                                                                         *)
(* Numbers.  The program computes in f64.  Here every coordinate and every *)
(* spinor component is a fixed-point integer: the integer n stands for the *)
(* real n / Unit.  The neighbour directions the model draws are rotations  *)
(* of one unit translation through whole quarter turns, whose sines and    *)
(* cosines are 0, 1 and -1, so every product below is exact; the f64       *)
(* values differ from these by rounding of the order of 1e-16, far inside  *)
(* the tolerances (1e-3, 0.1, 0.4) every comparison of the program uses.   *)
(*                                                                         *)
(* Indices are those of the program (0-based); the TLA+ sequences that     *)
(* hold the vectors are 1-based, so points[i + 1] is the program's         *)
(* points[i].                                                              *)
(***************************************************************************)
EXTENDS Integers, Sequences, FiniteSets, TLC

VARIABLES
    tiling,       \* make_board's arguments: tiling_parameters and edge_len
    pc,           \* "new" | "walk" | "play" | "panic"
    gen,          \* make_board's locals while its loops run
    points,       \* Board::points
    links,        \* Board::links
    history,      \* Board::history
    history_idx,  \* Board::history_idx
    turn,         \* GameState::turn
    call,         \* the last call on the GameState: op, a (the point found by
                  \* select_point, the offset of move_history), ret (what
                  \* try_select_point returned), k (how far the cursor stood
                  \* before the last snapshot when select_point was called)
    trip,         \* observer of an undo-all / redo-all round trip
    hover_idx,    \* GameState::hover_idx
    needs_render, \* GameState::needs_render
    geo,          \* an isometry g and a point v of one geometry, and what the
                  \* spinor operations made of them
    view_state    \* State::view_state: the ViewState's camera and floating_origin

vars == <<tiling, pc, gen, points, links, history, history_idx, turn, call, trip,
          hover_idx, needs_render, geo, view_state>>

(***************************************************************************)
(* Bounds of the model.                                                    *)
(***************************************************************************)
MaxMoves == 4

MaxOffset == 3

MaxEdgeLen == 3

\* Moves played in a game that is also hovered over, recentred and drawn.
MaxViewMoves == 2

\* Translations of the flat plane under test go 0 .. MaxAmt far, and its
\* points lie within 0.1 * MaxAmt of the origin on each axis.
MaxAmt == 3

\* The camera stays within MaxCamera steps of SPEED ahead of the origin and
\* MaxCameraSide steps to its side.
MaxCamera == 23

MaxCameraSide == 1

\* The square boards generated on their own have edge_len up to MaxSquareEdge.
MaxSquareEdge == 7

(***************************************************************************)
(* Fixed point and program constants.                                      *)
(***************************************************************************)
Unit == 4 * 5

STONE_RADIUS == 4

MAX_POINT_COUNT == 2500

I32_MAX == 2147483647

DedupNum == 1

DedupDen == 1000

NeighborNum == 1

NeighborDen == 10

StoneRadiusDen == 10

FMul(a, b) == (a * b) \div Unit

\* sqrt of the fixed-point value m, rounded down.
FSqrt(m) == CHOOSE r \in 0..(m + Unit) : r * r <= m * Unit /\ (r + 1) * (r + 1) > m * Unit

FDiv(a, b) == (a * Unit) \div b

(***************************************************************************)
(* PointEuclidian                                                          *)
(***************************************************************************)
PointZero == [x |-> 0, y |-> 0]

\* The square of PointEuclidian::distance, in Unit^2.
Distance2(a, b) == (a.x - b.x) * (a.x - b.x) + (a.y - b.y) * (a.y - b.y)

\* The largest squared distance, in Unit^2, that is at most (num / den)^2.
Reach2(num, den) == (num * num * Unit * Unit) \div (den * den)

(***************************************************************************)
(* SpinorEuclidian                                                         *)
(***************************************************************************)
SpinorOne == [s |-> Unit, xy |-> 0, yw |-> 0, wx |-> 0]

\* cos and sin of q quarter turns.
CosQ(q) == <<1, 0, -1, 0>>[(q % 4) + 1]

SinQ(q) == <<0, 1, 0, -1>>[(q % 4) + 1]

\* Spinor::translation(amt, angle), angle given in quarter turns.
Translation(amt, q) ==
    [s |-> Unit, xy |-> 0, yw |-> CosQ(q) * (amt \div 2), wx |-> SinQ(q) * (amt \div 2)]

\* Spinor::rotation(angle), angle given in half turns.
Rotation(h) == [s |-> CosQ(h) * Unit, xy |-> SinQ(h) * Unit, yw |-> 0, wx |-> 0]

\* Mutant of Reverse: the rotation part keeps its sign.
ReverseKeepsRotation(a) == [s |-> a.s, xy |-> a.xy, yw |-> -a.yw, wx |-> -a.wx]

Reverse(a) == [s |-> a.s, xy |-> -a.xy, yw |-> -a.yw, wx |-> -a.wx]

Magnitude2(a) == FMul(a.s, a.s) + FMul(a.xy, a.xy)

SpinorMul(self, rhs) ==
    [s  |-> FMul(rhs.s, self.s) - FMul(rhs.xy, self.xy),
     xy |-> FMul(rhs.xy, self.s) + FMul(rhs.s, self.xy),
     yw |-> FMul(rhs.yw, self.s) + FMul(rhs.wx, self.xy)
              + FMul(rhs.s, self.yw) - FMul(rhs.xy, self.wx),
     wx |-> FMul(rhs.wx, self.s) - FMul(rhs.yw, self.xy)
              + FMul(rhs.xy, self.yw) + FMul(rhs.s, self.wx)]

SpinorScale(self, f) ==
    [s |-> FMul(f, self.s), xy |-> FMul(f, self.xy),
     yw |-> FMul(f, self.yw), wx |-> FMul(f, self.wx)]

Normalize(a) == SpinorScale(a, FDiv(Unit, FSqrt(Magnitude2(a))))

Apply(a, v) ==
    [x |-> FMul(FMul(a.s, a.s) - FMul(a.xy, a.xy), v.x)
             + FMul(2 * FMul(a.s, a.xy), v.y)
             + (2 * FMul(a.yw, a.xy) - 2 * FMul(a.s, a.wx)),
     y |-> FMul(-2 * FMul(a.s, a.xy), v.x)
             + FMul(FMul(a.s, a.s) - FMul(a.xy, a.xy), v.y)
             + (2 * FMul(a.s, a.yw) + 2 * FMul(a.wx, a.xy))]

\* Mutant of TranslationTo: wx takes the sign of v.x.
TranslationToSameSign(v) == [s |-> Unit, xy |-> 0, yw |-> v.y \div 2, wx |-> v.x \div 2]

\* SpinorEuclidian::translation_to.
TranslationTo(v) == [s |-> Unit, xy |-> 0, yw |-> v.y \div 2, wx |-> (-v.x) \div 2]

(***************************************************************************)
(* Exact fractions, for the hyperbolic plane, whose isometries and points  *)
(* do not fall on tenths: n / d with d > 0 and n, d coprime.               *)
(***************************************************************************)
Abs(n) == IF n < 0 THEN -n ELSE n

RECURSIVE GCD(_, _)
GCD(a, b) == IF b = 0 THEN a ELSE GCD(b, a % b)

Q(n, d) ==
    LET g == GCD(Abs(n), Abs(d))
    IN  IF d < 0 THEN [n |-> (-n) \div g, d |-> (-d) \div g]
                 ELSE [n |-> n \div g, d |-> d \div g]

QInt(n) == [n |-> n, d |-> 1]

QAdd(a, b) ==
    LET l == (a.d \div GCD(a.d, b.d)) * b.d
    IN  Q(a.n * (l \div a.d) + b.n * (l \div b.d), l)

QNeg(a) == [n |-> -a.n, d |-> a.d]

QSub(a, b) == QAdd(a, QNeg(b))

QMul(a, b) ==
    LET g1 == GCD(Abs(a.n), b.d)
        g2 == GCD(Abs(b.n), a.d)
    IN  Q((a.n \div g1) * (b.n \div g2), (a.d \div g2) * (b.d \div g1))

QDiv(a, b) == QMul(a, Q(b.d, b.n))

\* The square root of n, rounded down.
ISqrt(n) == CHOOSE r \in 0..n : r * r <= n /\ (r + 1) * (r + 1) > n

\* sqrt, exact on the squares of fractions.
QSqrt(a) == Q(ISqrt(a.n), ISqrt(a.d))

(***************************************************************************)
(* PointHyperbolic and SpinorHyperbolic                                    *)
(***************************************************************************)
HyperbolicZero == [x |-> QInt(0), y |-> QInt(0), w |-> QInt(1)]

HyperbolicOne == [s |-> QInt(1), xy |-> QInt(0), yw |-> QInt(0), wx |-> QInt(0)]

HyperbolicReverse(a) == [s |-> a.s, xy |-> QNeg(a.xy), yw |-> QNeg(a.yw), wx |-> QNeg(a.wx)]

HyperbolicMagnitude2(a) ==
    QSub(QSub(QAdd(QMul(a.s, a.s), QMul(a.xy, a.xy)), QMul(a.yw, a.yw)), QMul(a.wx, a.wx))

HyperbolicMul(self, rhs) ==
    [s  |-> QAdd(QAdd(QSub(QMul(self.s, rhs.s), QMul(self.xy, rhs.xy)),
                      QMul(self.yw, rhs.yw)), QMul(self.wx, rhs.wx)),
     xy |-> QSub(QAdd(QAdd(QMul(self.s, rhs.xy), QMul(self.xy, rhs.s)),
                      QMul(self.yw, rhs.wx)), QMul(self.wx, rhs.yw)),
     yw |-> QAdd(QSub(QAdd(QMul(self.s, rhs.yw), QMul(self.yw, rhs.s)),
                      QMul(self.wx, rhs.xy)), QMul(self.xy, rhs.wx)),
     wx |-> QAdd(QSub(QAdd(QMul(self.s, rhs.wx), QMul(self.wx, rhs.s)),
                      QMul(self.xy, rhs.yw)), QMul(self.yw, rhs.xy))]

\* SpinorHyperbolic::into_mat4 after its transpose, without the z row and
\* column, which are zero: the rows that act on (x, y, w).
HyperbolicIntoMat4(a) ==
    LET ss == QMul(a.s, a.s)
        xx == QMul(a.xy, a.xy)
        yy == QMul(a.yw, a.yw)
        ww == QMul(a.wx, a.wx)
        two(p, q) == QMul(QInt(2), QMul(p, q))
    IN  << <<QSub(QSub(QAdd(ss, ww), yy), xx),
             QSub(two(a.s, a.xy), two(a.wx, a.yw)),
             QAdd(QNeg(two(a.s, a.wx)), two(a.yw, a.xy))>>,
           <<QSub(QNeg(two(a.s, a.xy)), two(a.wx, a.yw)),
             QSub(QAdd(QSub(ss, ww), yy), xx),
             QAdd(two(a.s, a.yw), two(a.wx, a.xy))>>,
           <<QSub(QNeg(two(a.s, a.wx)), two(a.yw, a.xy)),
             QSub(two(a.s, a.yw), two(a.wx, a.xy)),
             QAdd(QAdd(QAdd(ss, ww), yy), xx)>> >>

HyperbolicApply(a, v) ==
    LET m == HyperbolicIntoMat4(a)
        row(r) == QAdd(QAdd(QMul(r[1], v.x), QMul(r[2], v.y)), QMul(r[3], v.w))
    IN  [x |-> row(m[1]), y |-> row(m[2]), w |-> row(m[3])]

HyperbolicTranslationTo(v) ==
    LET w_factor == QSqrt(QMul(QInt(2), QAdd(v.w, QInt(1))))
    IN  [s  |-> QSqrt(QMul(Q(1, 2), QAdd(v.w, QInt(1)))),
         xy |-> QInt(0),
         yw |-> QDiv(v.y, w_factor),
         wx |-> QDiv(QNeg(v.x), w_factor)]

(***************************************************************************)
(* Board                                                                   *)
(***************************************************************************)
Min(S) == CHOOSE n \in S : \A m \in S : n <= m

\* distance(a, b) <= dist, for reach2 the square of dist in Unit^2.  A
\* coordinate farther off than reach2 settles it, and keeps the squares of
\* far-apart points out of the sum.
Within(a, b, reach2) ==
    /\ Abs(a.x - b.x) <= reach2
    /\ Abs(a.y - b.y) <= reach2
    /\ Distance2(a, b) <= reach2

\* Mutant of FindPoint: a point exactly dist away, or exactly at pos when dist
\* rounds to nothing, is not found.
FindPointStrictlyWithin(pts, pos, num, den) ==
    LET reach2 == Reach2(num, den)
        hits   == {n \in 1..Len(pts) : /\ Within(pos, pts[n].pos, reach2)
                                        /\ Distance2(pos, pts[n].pos) < reach2}
    IN  IF hits = {} THEN -1 ELSE Min(hits) - 1

\* Board::find_point with dist = num / den: the first point within dist of
\* pos, or -1.
FindPoint(pts, pos, num, den) ==
    LET reach2 == Reach2(num, den)
        hits   == {n \in 1..Len(pts) : Within(pos, pts[n].pos, reach2)}
    IN  IF hits = {} THEN -1 ELSE Min(hits) - 1

\* make_board's neighbor_directions.
NeighborDirections(tp) ==
    [n \in 1..tp.around_vertex |-> Translation(tp.distance, (n - 1) * tp.angle)]

ReverseNeighborDirections(tp) ==
    [n \in 1..tp.around_vertex |-> Reverse(NeighborDirections(tp)[n])]

\* Mutant of AddPoint: neighbours are looked for along neighbor_directions
\* only, not along their reverses.
AddPointForwardOnly(pts, lks, tp, transform, reversed) ==
    LET dirs     == NeighborDirections(tp)
        this_idx == Len(pts)
        found    == [n \in 1..Len(dirs) |->
                        FindPoint(pts, Apply(SpinorMul(transform, dirs[n]), PointZero),
                                  NeighborNum, NeighborDen)]
        hit      == SelectSeq(found, LAMBDA f : f >= 0)
        point    == [pos |-> Apply(transform, PointZero),
                     transform |-> transform,
                     relative_transform |-> transform,
                     neighbors |-> hit,
                     ty |-> "Empty",
                     reversed |-> reversed]
        pushed(m) == [n \in 1..Len(SelectSeq(hit, LAMBDA f : f = m)) |-> this_idx]
        hitset   == {hit[n] : n \in 1..Len(hit)}
    IN  [points |-> Append([n \in 1..Len(pts) |->
                               IF (n - 1) \in hitset
                               THEN [pts[n] EXCEPT !.neighbors = @ \o pushed(n - 1)]
                               ELSE pts[n]],
                           point),
         links  |-> lks \o [n \in 1..Len(hit) |-> <<hit[n], this_idx>>]]

\* Mutant of AddPoint: the new point lists the neighbours found, and they do
\* not list it.
AddPointOneSided(pts, lks, tp, transform, reversed) ==
    LET dirs     == NeighborDirections(tp) \o ReverseNeighborDirections(tp)
        this_idx == Len(pts)
        found    == [n \in 1..Len(dirs) |->
                        FindPoint(pts, Apply(SpinorMul(transform, dirs[n]), PointZero),
                                  NeighborNum, NeighborDen)]
        hit      == SelectSeq(found, LAMBDA f : f >= 0)
        point    == [pos |-> Apply(transform, PointZero),
                     transform |-> transform,
                     relative_transform |-> transform,
                     neighbors |-> hit,
                     ty |-> "Empty",
                     reversed |-> reversed]
    IN  [points |-> Append(pts, point),
         links  |-> lks \o [n \in 1..Len(hit) |-> <<hit[n], this_idx>>]]

\* Board::add_point.  find_point reads positions only, which the loop does not
\* change, so the indices found are computed first and the pushes applied in
\* the loop's order.
AddPoint(pts, lks, tp, transform, reversed) ==
    LET dirs     == NeighborDirections(tp) \o ReverseNeighborDirections(tp)
        this_idx == Len(pts)
        found    == [n \in 1..Len(dirs) |->
                        FindPoint(pts, Apply(SpinorMul(transform, dirs[n]), PointZero),
                                  NeighborNum, NeighborDen)]
        hit      == SelectSeq(found, LAMBDA f : f >= 0)
        point    == [pos |-> Apply(transform, PointZero),
                     transform |-> transform,
                     relative_transform |-> transform,
                     neighbors |-> hit,
                     ty |-> "Empty",
                     reversed |-> reversed]
        pushed(m) == [n \in 1..Len(SelectSeq(hit, LAMBDA f : f = m)) |-> this_idx]
        hitset   == {hit[n] : n \in 1..Len(hit)}
    IN  [points |-> Append([n \in 1..Len(pts) |->
                               IF (n - 1) \in hitset
                               THEN [pts[n] EXCEPT !.neighbors = @ \o pushed(n - 1)]
                               ELSE pts[n]],
                           point),
         links  |-> lks \o [n \in 1..Len(hit) |-> <<hit[n], this_idx>>]]

\* The stone state of every point, in index order: what save_move pushes.
Stones(pts) == [n \in 1..Len(pts) |-> pts[n].ty]

(***************************************************************************)
(* make_board, one pass of its innermost loop per step.                    *)
(***************************************************************************)
\* Mutant of Rings: the ring loop runs through edge_len / 2 + 1.
RingsInclusive(edge_len) == edge_len \div 2 + 1

\* The rings make_board runs: ring in 1..(edge_len / 2 + 1), the end excluded.

Rings(edge_len) == edge_len \div 2

RECURSIVE EnterRing(_, _, _, _)
\* The first (ring, i, j) at or after the start of `ring`, or done when the
\* ring loop is over; a ring whose point range start_i..l is empty runs no pass.
EnterRing(ring, start_i, npoints, edge_len) ==
    IF ring > Rings(edge_len)
    THEN [done |-> TRUE]
    ELSE IF start_i < npoints
         THEN [done |-> FALSE, ring |-> ring, start_i |-> start_i, l |-> npoints,
               i |-> start_i, j |-> 0]
         ELSE EnterRing(ring + 1, npoints, npoints, edge_len)

\* Where the loops stand after the k loop of (ring, i, j) ended by break.
AfterBreak(g, tp, npoints, edge_len) ==
    IF g.j + 1 < tp.around_vertex
    THEN [done |-> FALSE, ring |-> g.ring, start_i |-> g.start_i, l |-> g.l,
          i |-> g.i, j |-> g.j + 1]
    ELSE IF g.i + 1 < g.l
         THEN [done |-> FALSE, ring |-> g.ring, start_i |-> g.start_i, l |-> g.l,
               i |-> g.i + 1, j |-> 0]
         ELSE EnterRing(g.ring + 1, g.l, npoints, edge_len)

\* The locals at the top of the k loop of position p.
StartWalk(p, pts, test_count) ==
    [ring |-> p.ring, start_i |-> p.start_i, l |-> p.l, i |-> p.i, j |-> p.j,
     k |-> 0, cur_transform |-> pts[p.i + 1].transform, test_count |-> test_count]

NoGen == [ring |-> 0, start_i |-> 0, l |-> 0, i |-> 0, j |-> 0, k |-> 0,
          cur_transform |-> SpinorOne, test_count |-> 0]

NoCall == [op |-> "none", a |-> 0, ret |-> FALSE, k |-> 0]

\* No geometry under test.
NoGeo == [op |-> "none"]

\* ViewState::new.
ViewStateNew == [camera |-> SpinorOne, floating_origin |-> SpinorOne]

NoTrip == [stage |-> "fresh", n |-> 0, ty |-> <<>>, idx |-> 0]

\* make_board falls out of its loops: the initial snapshot is pushed and
\* GameState::new takes the board.
FinishBoard(pts) ==
    /\ history' = <<[n \in 1..Len(pts) |-> "Empty"]>>
    /\ pc' = "play"
    /\ turn' = "Black"
    /\ hover_idx' = -1
    /\ needs_render' = TRUE
    /\ gen' = NoGen

\* make_board returns from inside its loops at the point ceiling.
ReturnAtCeiling ==
    /\ history' = history
    /\ pc' = "play"
    /\ turn' = "Black"
    /\ hover_idx' = -1
    /\ needs_render' = TRUE
    /\ gen' = NoGen

\* Mutant of MakeBoard: without the assertion, an even edge_len runs the
\* loops for edge_len / 2 rings.
MakeBoardNoAssert ==
    /\ pc = "new"
    /\ UNCHANGED <<tiling, geo, view_state, history_idx, call, trip>>
    /\ LET b == AddPoint(<<>>, <<>>, tiling.tp, SpinorOne, FALSE)
           p == EnterRing(1, 0, Len(b.points), tiling.edge_len)
       IN  /\ points' = b.points
           /\ links' = b.links
           /\ IF p.done
              THEN FinishBoard(b.points)
              ELSE /\ gen' = StartWalk(p, b.points, 1)
                   /\ pc' = "walk"
                   /\ UNCHANGED <<history, turn, hover_idx, needs_render>>

\* make_board up to the first pass of the loops.
MakeBoard ==
    /\ pc = "new"
    /\ UNCHANGED <<tiling, geo, view_state, history_idx, call, trip>>
    /\ IF tiling.edge_len % 2 # 1
       THEN /\ pc' = "panic"
            /\ UNCHANGED <<gen, points, links, history, turn, hover_idx, needs_render>>
       ELSE LET b == AddPoint(<<>>, <<>>, tiling.tp, SpinorOne, FALSE)
                p == EnterRing(1, 0, Len(b.points), tiling.edge_len)
            IN  /\ points' = b.points
                /\ links' = b.links
                /\ IF p.done
                   THEN FinishBoard(b.points)
                   ELSE /\ gen' = StartWalk(p, b.points, 1)
                        /\ pc' = "walk"
                        /\ UNCHANGED <<history, turn, hover_idx, needs_render>>

\* The direction the pass at k takes: neighbor_directions.iter().cycle().skip(j).
WalkDir(g, tp) == NeighborDirections(tp)[((g.j + g.k) % tp.around_vertex) + 1]

LinkReversed(g, pts) == ((g.k % 2 = 1) # pts[g.i + 1].reversed)

\* cur_transform after the pass's step and normalize().
WalkTransform(g, tp, pts) ==
    Normalize(IF LinkReversed(g, pts)
              THEN SpinorMul(g.cur_transform, Reverse(WalkDir(g, tp)))
              ELSE SpinorMul(g.cur_transform, WalkDir(g, tp)))

WalkFound(g, tp, pts) ==
    FindPoint(pts, Apply(WalkTransform(g, tp, pts), PointZero), DedupNum, DedupDen)

\* The pass finds an existing point at k = 0: continue.
WalkSkip ==
    /\ pc = "walk"
    /\ gen.k = 0
    /\ WalkFound(gen, tiling.tp, points) # -1
    /\ gen' = [gen EXCEPT !.k = 1, !.cur_transform = WalkTransform(gen, tiling.tp, points)]
    /\ UNCHANGED <<tiling, geo, view_state, pc, points, links, history, history_idx,
                   turn, call, trip, hover_idx, needs_render>>

\* Mutant of WalkBreak: an existing point at k > 0 is passed over as at
\* k = 0, and the walk goes on.
WalkBreakContinues ==
    /\ pc = "walk"
    /\ gen.k # 0
    /\ WalkFound(gen, tiling.tp, points) # -1
    /\ gen' = [gen EXCEPT !.k = @ + 1,
                          !.cur_transform = WalkTransform(gen, tiling.tp, points)]
    /\ UNCHANGED <<tiling, geo, view_state, pc, points, links, history, history_idx,
                   turn, call, trip, hover_idx, needs_render>>

\* The pass finds an existing point at k > 0: break, on to the next (ring, i, j).
WalkBreak ==
    /\ pc = "walk"
    /\ gen.k # 0
    /\ WalkFound(gen, tiling.tp, points) # -1
    /\ LET p == AfterBreak(gen, tiling.tp, Len(points), tiling.edge_len)
       IN  IF p.done
           THEN FinishBoard(points)
           ELSE /\ gen' = StartWalk(p, points, gen.test_count)
                /\ UNCHANGED <<pc, history, turn, hover_idx, needs_render>>
    /\ UNCHANGED <<tiling, geo, view_state, points, links, history_idx, call, trip>>

\* The pass finds no point at the new position: add_point, count, test the ceiling.
WalkAppend ==
    /\ pc = "walk"
    /\ WalkFound(gen, tiling.tp, points) = -1
    /\ LET t == WalkTransform(gen, tiling.tp, points)
           b == AddPoint(points, links, tiling.tp, t, ~LinkReversed(gen, points))
       IN  /\ points' = b.points
           /\ links' = b.links
           /\ IF gen.test_count + 1 >= MAX_POINT_COUNT
              THEN ReturnAtCeiling
              ELSE /\ gen' = [gen EXCEPT !.k = @ + 1, !.cur_transform = t,
                                         !.test_count = @ + 1]
                   /\ UNCHANGED <<pc, history, turn, hover_idx, needs_render>>
    /\ UNCHANGED <<tiling, geo, view_state, history_idx, call, trip>>

(***************************************************************************)
(* GameState: captures, self-capture, placement, history.                  *)
(***************************************************************************)
InSeq(x, seq) == \E n \in 1..Len(seq) : seq[n] = x

RECURSIVE FloodFill(_, _, _, _)
\* The search loop of update_captures and of is_self_capture: pops the stack
\* until it meets an Empty point (no capture) or runs out (every checked
\* point is without liberty).
FloodFill(pts, captured_type, search_stack, checked_idxs) ==
    IF search_stack = <<>>
    THEN [exhausted |-> TRUE, checked_idxs |-> checked_idxs]
    ELSE LET i     == search_stack[Len(search_stack)]
             rest  == SubSeq(search_stack, 1, Len(search_stack) - 1)
             point == pts[i + 1]
         IN  IF point.ty = "Empty"
             THEN [exhausted |-> FALSE, checked_idxs |-> checked_idxs]
             ELSE IF point.ty = captured_type /\ ~InSeq(i, checked_idxs)
                  THEN FloodFill(pts, captured_type, rest \o point.neighbors,
                                 Append(checked_idxs, i))
                  ELSE FloodFill(pts, captured_type, rest, checked_idxs)

Opponent(t) == IF t = "Black" THEN "White" ELSE "Black"

RECURSIVE CapturedIdxs(_, _, _, _, _)
\* The 'outer loop of update_captures from the n-th neighbour on.
CapturedIdxs(pts, captured_type, nbrs, n, captured_idxs) ==
    IF n > Len(nbrs)
    THEN captured_idxs
    ELSE IF pts[nbrs[n] + 1].ty # captured_type
         THEN CapturedIdxs(pts, captured_type, nbrs, n + 1, captured_idxs)
         ELSE LET f == FloodFill(pts, captured_type, <<nbrs[n]>>, <<>>)
              IN  CapturedIdxs(pts, captured_type, nbrs, n + 1,
                               IF f.exhausted
                               THEN captured_idxs \o f.checked_idxs
                               ELSE captured_idxs)

\* Mutant of UpdateCaptures: the captured stones take the colour of the
\* player who moves instead of leaving the board.
UpdateCapturesRecolours(pts, t, point_idx) ==
    LET captured_idxs == CapturedIdxs(pts, Opponent(t), pts[point_idx + 1].neighbors,
                                      1, <<>>)
    IN  [points   |-> [n \in 1..Len(pts) |->
                          IF InSeq(n - 1, captured_idxs)
                          THEN [pts[n] EXCEPT !.ty = t]
                          ELSE pts[n]],
         captured |-> captured_idxs # <<>>]

\* Mutant of UpdateCaptures: every opposing stone next to the placed stone is
\* captured, the search for a liberty of its group skipped.
UpdateCapturesNoLibertySearch(pts, t, point_idx) ==
    LET taken(n) == /\ InSeq(n - 1, pts[point_idx + 1].neighbors)
                    /\ pts[n].ty = Opponent(t)
    IN  [points   |-> [n \in 1..Len(pts) |->
                          IF taken(n) THEN [pts[n] EXCEPT !.ty = "Empty"] ELSE pts[n]],
         captured |-> \E n \in 1..Len(pts) : taken(n)]

\* Mutant of UpdateCaptures: the captured stones are found and reported but
\* never set to Empty.
UpdateCapturesKeepsStones(pts, t, point_idx) ==
    [points   |-> pts,
     captured |-> CapturedIdxs(pts, Opponent(t), pts[point_idx + 1].neighbors, 1, <<>>)
                      # <<>>]

\* GameState::update_captures: the points after the captures, and its result.
UpdateCaptures(pts, t, point_idx) ==
    LET captured_idxs == CapturedIdxs(pts, Opponent(t), pts[point_idx + 1].neighbors,
                                      1, <<>>)
    IN  [points   |-> [n \in 1..Len(pts) |->
                          IF InSeq(n - 1, captured_idxs)
                          THEN [pts[n] EXCEPT !.ty = "Empty"]
                          ELSE pts[n]],
         captured |-> captured_idxs # <<>>]

\* Mutant of IsSelfCapture: no placement is ever found to be a self-capture.
IsSelfCaptureNever(pts, t, point_idx) == FALSE

\* Mutant of IsSelfCapture: the result of the search is inverted.
IsSelfCaptureInverted(pts, t, point_idx) ==
    ~FloodFill(pts, t, <<point_idx>>, <<>>).exhausted

\* GameState::is_self_capture.
IsSelfCapture(pts, t, point_idx) == FloodFill(pts, t, <<point_idx>>, <<>>).exhausted

\* Mutant of SaveMove: the snapshots after the cursor are not truncated.
SaveMoveNoTruncate(pts, hist, hidx) ==
    [history |-> Append(hist, Stones(pts)), history_idx |-> hidx + 1]

\* Board::save_move.
SaveMove(pts, hist, hidx) ==
    LET idx  == hidx + 1
        kept == SubSeq(hist, 1, IF idx < Len(hist) THEN idx ELSE Len(hist))
    IN  [history |-> Append(kept, Stones(pts)), history_idx |-> idx]

\* Mutant of TrySelectPoint: self-capture is tested before the captures are
\* resolved.
TrySelectPointSelfCaptureFirst(pts, hist, hidx, t, pos) ==
    LET i == FindPoint(pts, pos, STONE_RADIUS, StoneRadiusDen)
        rejected == [ret |-> FALSE, i |-> i, points |-> pts, history |-> hist,
                     history_idx |-> hidx]
    IN  IF i < 0
        THEN rejected
        ELSE IF pts[i + 1].ty # "Empty"
             THEN rejected
             ELSE LET placed == [pts EXCEPT ![i + 1].ty = t]
                      u      == UpdateCaptures(placed, t, i)
                      sv     == SaveMove(u.points, hist, hidx)
                  IN  IF IsSelfCapture(placed, t, i)
                      THEN rejected
                      ELSE [ret |-> TRUE, i |-> i, points |-> u.points,
                            history |-> sv.history, history_idx |-> sv.history_idx]

\* Mutant of TrySelectPoint: a self-capture is rejected without taking the
\* stone back.
TrySelectPointNoRevert(pts, hist, hidx, t, pos) ==
    LET i == FindPoint(pts, pos, STONE_RADIUS, StoneRadiusDen)
        rejected == [ret |-> FALSE, i |-> i, points |-> pts, history |-> hist,
                     history_idx |-> hidx]
    IN  IF i < 0
        THEN rejected
        ELSE IF pts[i + 1].ty # "Empty"
             THEN rejected
             ELSE LET placed == [pts EXCEPT ![i + 1].ty = t]
                      u      == UpdateCaptures(placed, t, i)
                      sv     == SaveMove(u.points, hist, hidx)
                  IN  IF ~u.captured /\ IsSelfCapture(u.points, t, i)
                      THEN [rejected EXCEPT !.points = u.points]
                      ELSE [ret |-> TRUE, i |-> i, points |-> u.points,
                            history |-> sv.history, history_idx |-> sv.history_idx]

\* Mutant of TrySelectPoint: an occupied point is accepted like an Empty one.
TrySelectPointAcceptsOccupied(pts, hist, hidx, t, pos) ==
    LET i == FindPoint(pts, pos, STONE_RADIUS, StoneRadiusDen)
        rejected == [ret |-> FALSE, i |-> i, points |-> pts, history |-> hist,
                     history_idx |-> hidx]
    IN  IF i < 0
        THEN rejected
        ELSE LET placed == [pts EXCEPT ![i + 1].ty = t]
                 u      == UpdateCaptures(placed, t, i)
                 sv     == SaveMove(u.points, hist, hidx)
             IN  IF ~u.captured /\ IsSelfCapture(u.points, t, i)
                 THEN [rejected EXCEPT !.points = [u.points EXCEPT ![i + 1].ty = "Empty"]]
                 ELSE [ret |-> TRUE, i |-> i, points |-> u.points,
                       history |-> sv.history, history_idx |-> sv.history_idx]

\* GameState::try_select_point: what it returns and the board it leaves.
TrySelectPoint(pts, hist, hidx, t, pos) ==
    LET i == FindPoint(pts, pos, STONE_RADIUS, StoneRadiusDen)
        rejected == [ret |-> FALSE, i |-> i, points |-> pts, history |-> hist,
                     history_idx |-> hidx]
    IN  IF i < 0
        THEN rejected
        ELSE IF pts[i + 1].ty # "Empty"
             THEN rejected
             ELSE LET placed == [pts EXCEPT ![i + 1].ty = t]
                      u      == UpdateCaptures(placed, t, i)
                  IN  IF ~u.captured /\ IsSelfCapture(u.points, t, i)
                      THEN [rejected EXCEPT !.points = [u.points EXCEPT ![i + 1].ty = "Empty"]]
                      ELSE LET sv == SaveMove(u.points, hist, hidx)
                           IN  [ret |-> TRUE, i |-> i, points |-> u.points,
                                history |-> sv.history, history_idx |-> sv.history_idx]

\* i32 addition: whether a + b leaves the i32 range, and the wrapped sum.
AddOverflows(a, b) == (b > 0 /\ a > I32_MAX - b) \/ (b < 0 /\ a < (-I32_MAX - 1) - b)

WrappingAdd(a, b) ==
    IF b > 0 /\ a > I32_MAX - b
    THEN (a - I32_MAX - 1) + (b - I32_MAX - 1)
    ELSE IF b < 0 /\ a < (-I32_MAX - 1) - b
         THEN (a + I32_MAX + 1) + (b + I32_MAX + 1)
         ELSE a + b

\* Mutant of MoveHistory: the cursor moves and the stones stay as they are.
MoveHistoryCursorOnly(pts, hist, hidx, offset) ==
    LET idx == WrappingAdd(hidx, offset)
    IN  IF idx < 0 \/ idx >= Len(hist)
        THEN [points |-> pts, history_idx |-> WrappingAdd(idx, -offset)]
        ELSE [points |-> pts, history_idx |-> idx]

\* Board::move_history where the addition does not panic.
MoveHistory(pts, hist, hidx, offset) ==
    LET idx == WrappingAdd(hidx, offset)
    IN  IF idx < 0 \/ idx >= Len(hist)
        THEN [points |-> pts, history_idx |-> WrappingAdd(idx, -offset)]
        ELSE [points |-> [n \in 1..Len(pts) |-> [pts[n] EXCEPT !.ty = hist[idx + 1][n]]],
              history_idx |-> idx]

(***************************************************************************)
(* The calls of the view layer on the GameState.                           *)
(***************************************************************************)
TripOff == [stage |-> "off", n |-> 0, ty |-> <<>>, idx |-> 0]

\* Mutant of SelectPoint: the turn passes whatever try_select_point returns.
SelectPointAlwaysFlips(pos) ==
    /\ pc = "play"
    /\ history_idx < MaxMoves
    /\ LET r == TrySelectPoint(points, history, history_idx, turn, pos)
       IN  /\ points' = r.points
           /\ history' = r.history
           /\ history_idx' = r.history_idx
           /\ turn' = Opponent(turn)
           /\ call' = [op |-> "select_point", a |-> r.i, ret |-> r.ret,
                        k |-> IF r.ret THEN Len(history) - 1 - history_idx ELSE 0]
           /\ trip' = IF trip.stage = "fresh"
                      THEN [trip EXCEPT !.n = IF r.ret THEN @ + 1 ELSE @]
                      ELSE TripOff
           /\ needs_render' = (r.ret \/ needs_render)
    /\ UNCHANGED <<tiling, geo, view_state, pc, gen, links, hover_idx>>

\* What select_point hands back to its caller: it is declared without a
\* return type, so the unit value, whatever try_select_point returned.
SelectPointRet(pts, hist, hidx, t, pos) == "()"

\* GameState::select_point(pos).
SelectPoint(pos) ==
    /\ pc = "play"
    /\ history_idx < MaxMoves
    /\ LET r == TrySelectPoint(points, history, history_idx, turn, pos)
       IN  /\ points' = r.points
           /\ history' = r.history
           /\ history_idx' = r.history_idx
           /\ turn' = IF r.ret THEN Opponent(turn) ELSE turn
           /\ call' = [op |-> "select_point", a |-> r.i, ret |-> r.ret,
                        k |-> IF r.ret THEN Len(history) - 1 - history_idx ELSE 0]
           /\ trip' = IF trip.stage = "fresh"
                      THEN [trip EXCEPT !.n = IF r.ret THEN @ + 1 ELSE @]
                      ELSE TripOff
           /\ needs_render' = (r.ret \/ needs_render)
    /\ UNCHANGED <<tiling, geo, view_state, pc, gen, links, hover_idx>>

\* The observer: the first navigation after n accepted moves is
\* move_history(-n), and the call right after it is move_history(n).
TripAfterMoveHistory(offset) ==
    IF trip.stage = "fresh" /\ offset = -trip.n
    THEN [stage |-> "undone", n |-> trip.n, ty |-> Stones(points), idx |-> history_idx]
    ELSE IF trip.stage = "undone" /\ offset = trip.n
         THEN [trip EXCEPT !.stage = "redone"]
         ELSE TripOff

\* GameState::move_history(offset), the addition wrapping or in range.
MoveHistoryCall(offset) ==
    /\ pc = "play"
    /\ LET r == MoveHistory(points, history, history_idx, offset)
       IN  /\ points' = r.points
           /\ history_idx' = r.history_idx
    /\ call' = [op |-> "move_history", a |-> offset, ret |-> FALSE, k |-> 0]
    /\ trip' = TripAfterMoveHistory(offset)
    /\ needs_render' = TRUE
    /\ UNCHANGED <<tiling, geo, view_state, pc, gen, links, history, turn, hover_idx>>

\* GameState::move_history(offset) in a build that checks overflow: the
\* addition history_idx += offset panics.
MoveHistoryOverflow(offset) ==
    /\ pc = "play"
    /\ AddOverflows(history_idx, offset)
    /\ pc' = "panic"
    /\ call' = [op |-> "move_history", a |-> offset, ret |-> FALSE, k |-> 0]
    /\ UNCHANGED <<tiling, geo, view_state, gen, points, links, history, history_idx,
                   turn, trip, hover_idx, needs_render>>

\* Option<Point>: the argument and the result of check_hover_point.
None == [some |-> FALSE]

Some(v) == [some |-> TRUE, v |-> v]

\* Mutant of CheckHoverPointRet: the search uses the radius of make_board's
\* duplicate test.
CheckHoverPointRetDedupRadius(pts, maybe_pos) ==
    IF maybe_pos.some
    THEN LET i == FindPoint(pts, maybe_pos.v, DedupNum, DedupDen)
         IN  [hover_idx |-> i,
              ret |-> IF i >= 0 THEN Some([pos |-> pts[i + 1].pos, idx |-> i]) ELSE None]
    ELSE [hover_idx |-> -1, ret |-> None]

\* GameState::check_hover_point: the hover_idx it sets and what it returns.
CheckHoverPointRet(pts, maybe_pos) ==
    IF maybe_pos.some
    THEN LET i == FindPoint(pts, maybe_pos.v, STONE_RADIUS, StoneRadiusDen)
         IN  [hover_idx |-> i,
              ret |-> IF i >= 0 THEN Some([pos |-> pts[i + 1].pos, idx |-> i]) ELSE None]
    ELSE [hover_idx |-> -1, ret |-> None]

\* The cursor moves: check_hover_point(maybe_pos), and the caller asks for a
\* render when the point under the cursor is another one.
CheckHoverPoint(maybe_pos) ==
    /\ pc = "play"
    /\ LET r == CheckHoverPointRet(points, maybe_pos)
       IN  /\ hover_idx' = r.hover_idx
           /\ needs_render' = (needs_render \/ r.hover_idx # hover_idx)
           /\ call' = [op |-> "check_hover_point", a |-> r.hover_idx,
                        ret |-> r.ret.some, k |-> 0, arg |-> maybe_pos, out |-> r.ret]
    /\ UNCHANGED <<tiling, geo, view_state, pc, gen, points, links, history,
                   history_idx, turn, trip>>

\* Mutant of BoardUpdateFloatingOrigin: the product is stored in transform.
BoardUpdateFloatingOriginMovesTransform(pts, camera_r) ==
    [n \in 1..Len(pts) |->
        [pts[n] EXCEPT !.transform = SpinorMul(camera_r, pts[n].transform)]]

\* Mutant of BoardUpdateFloatingOrigin: pos follows relative_transform.
BoardUpdateFloatingOriginMovesPos(pts, camera_r) ==
    [n \in 1..Len(pts) |->
        [pts[n] EXCEPT !.relative_transform = SpinorMul(camera_r, pts[n].transform),
                       !.pos = Apply(SpinorMul(camera_r, pts[n].transform), PointZero)]]

\* Board::update_floating_origin.
BoardUpdateFloatingOrigin(pts, camera_r) ==
    [n \in 1..Len(pts) |->
        [pts[n] EXCEPT !.relative_transform = SpinorMul(camera_r, pts[n].transform)]]

\* GameState::update_floating_origin(camera_r).
UpdateFloatingOrigin(camera_r) ==
    /\ pc = "play"
    /\ points' = BoardUpdateFloatingOrigin(points, camera_r)
    /\ needs_render' = TRUE
    /\ call' = [op |-> "update_floating_origin", a |-> 0, ret |-> FALSE, k |-> 0,
                 arg |-> camera_r]
    /\ UNCHANGED <<tiling, geo, view_state, pc, gen, links, history, history_idx, turn,
                   trip, hover_idx>>

\* The frame is drawn: the instances are rebuilt and needs_render is cleared.
Render ==
    /\ pc = "play"
    /\ needs_render
    /\ needs_render' = FALSE
    /\ call' = [op |-> "render", a |-> 0, ret |-> FALSE, k |-> 0]
    /\ UNCHANGED <<tiling, geo, view_state, pc, gen, points, links, history,
                   history_idx, turn, trip, hover_idx>>

(***************************************************************************)
(* ViewState (src/src/geometry/mod.rs) and the update tick of lib.rs.      *)
(* The keys move the camera SPEED = 0.1 along a quarter-turn direction,    *)
(* which is exact here.  ANGULAR_SPEED = 0.05 rad has no exact sine and    *)
(* cosine: the rotation keys turn the camera AngularStep half turns, a     *)
(* rotation about the camera's own position like the program's.            *)
(***************************************************************************)
SPEED == Unit \div 10

AngularStep == 1

\* The distance beyond which State::update recentres the floating origin.
RecentreDistance == 2

\* ViewState::translate(amt, angle), angle given in quarter turns.
ViewStateTranslate(vs, amt, q) ==
    [vs EXCEPT !.camera = Normalize(SpinorMul(vs.camera, Translation(amt, q)))]

\* ViewState::rotate(angle), angle given in half turns.
ViewStateRotate(vs, h) ==
    [vs EXCEPT !.camera = Normalize(SpinorMul(vs.camera, Rotation(h)))]

\* ViewState::drag.
ViewStateDrag(vs, pos_from, pos_to) ==
    [vs EXCEPT !.camera =
        Normalize(SpinorMul(SpinorMul(TranslationTo(pos_from),
                                      Reverse(TranslationTo(pos_to))),
                            vs.camera))]

\* ViewState::update_floating_origin.
ViewStateUpdateFloatingOrigin(vs) == [vs EXCEPT !.floating_origin = vs.camera]

\* ViewState::reset_camera.
ViewStateResetCamera(vs) == [vs EXCEPT !.camera = SpinorOne]

\* The spinor whose matrix ViewState::get_camera_mat returns (before the
\* projection scale).
GetCameraMat(vs) == SpinorMul(Reverse(vs.camera), vs.floating_origin)

\* The square of SpinorEuclidian::distance, in Unit^2.
SpinorDistance2(a, b) == Distance2(Apply(a, PointZero), Apply(b, PointZero))

\* The camera after the motion of one tick: the keys held, then the drag.
Moved(vs, input) ==
    LET t1 == IF input.back THEN ViewStateTranslate(vs, SPEED, 2)
              ELSE IF input.forward THEN ViewStateTranslate(vs, SPEED, 0)
              ELSE vs
        t2 == IF input.left THEN ViewStateTranslate(t1, SPEED, 1)
              ELSE IF input.right THEN ViewStateTranslate(t1, SPEED, 3)
              ELSE t1
        t3 == IF input.cw THEN ViewStateRotate(t2, AngularStep)
              ELSE IF input.ccw THEN ViewStateRotate(t2, -AngularStep)
              ELSE t2
    IN  IF input.drag.some
        THEN ViewStateDrag(t3, input.drag.v.pos_from, input.drag.v.cursor_pos)
        ELSE t3

\* Mutant of Recentre: the points are recomputed and the floating origin of
\* the view stays where it was.
RecentreKeepsOrigin(vs, pts) ==
    IF SpinorDistance2(vs.camera, vs.floating_origin)
           > RecentreDistance * RecentreDistance * Unit * Unit
    THEN [view_state |-> vs,
          points     |-> BoardUpdateFloatingOrigin(pts, Reverse(vs.camera)),
          recentred  |-> TRUE]
    ELSE [view_state |-> vs, points |-> pts, recentred |-> FALSE]

\* Mutant of Recentre: the floating origin is never moved.
RecentreNever(vs, pts) == [view_state |-> vs, points |-> pts, recentred |-> FALSE]

\* The end of State::update: past RecentreDistance the floating origin
\* becomes the camera and the points are recomputed from its reverse.
Recentre(vs, pts) ==
    IF SpinorDistance2(vs.camera, vs.floating_origin)
           > RecentreDistance * RecentreDistance * Unit * Unit
    THEN [view_state |-> ViewStateUpdateFloatingOrigin(vs),
          points     |-> BoardUpdateFloatingOrigin(pts, Reverse(vs.camera)),
          recentred  |-> TRUE]
    ELSE [view_state |-> vs, points |-> pts, recentred |-> FALSE]

\* The camera stands within the part of the plane the model explores.
InRange(vs) ==
    LET p == Apply(vs.camera, PointZero)
    IN  /\ p.x >= 0 /\ p.x <= MaxCameraSide * SPEED
        /\ p.y >= 0 /\ p.y <= MaxCamera * SPEED

\* State::update, one tick: the camera moves, the floating origin is
\* recentred, and the instances are rebuilt if needs_render is set by then,
\* which clears it.
Update(input) ==
    /\ pc = "play"
    /\ InRange(Moved(view_state, input))
    /\ LET r == Recentre(Moved(view_state, input), points)
       IN  /\ view_state' = r.view_state
           /\ points' = r.points
           /\ needs_render' = FALSE
    /\ call' = [op |-> "update", a |-> 0, ret |-> FALSE, k |-> 0]
    /\ UNCHANGED <<tiling, geo, pc, gen, links, history, history_idx, turn, trip,
                   hover_idx>>

\* The R key: ViewState::reset_camera.
ResetCamera ==
    /\ pc = "play"
    /\ view_state' = ViewStateResetCamera(view_state)
    /\ call' = [op |-> "reset_camera", a |-> 0, ret |-> FALSE, k |-> 0]
    /\ UNCHANGED <<tiling, geo, pc, gen, points, links, history, history_idx, turn,
                   trip, hover_idx, needs_render>>

(***************************************************************************)
(* Inputs.                                                                 *)
(***************************************************************************)
\* tiling_parameters for around_vertex directions a whole number of quarter
\* turns apart (angle = 2 pi / around_vertex) at distance 1, and edge_len.
Tiling(av, e) ==
    [tp |-> [around_vertex |-> av, angle |-> 4 \div av, distance |-> Unit],
     edge_len |-> e]

\* Boards that close: the square tiling and the two-point board of one direction.
Tilings == {Tiling(av, e) : av \in {1, 4}, e \in 1..MaxEdgeLen}

\* Two opposite directions never close: the walk runs to the point ceiling.
CeilingTilings == {Tiling(2, e) : e \in 1..MaxEdgeLen} \cup {Tiling(1, 5)}

\* Positions clicked: board points, a position 0.36 from the seed, and a
\* position farther than STONE_RADIUS from every point.
Clicks ==
    {[x |-> 0, y |-> 0], [x |-> 0, y |-> Unit], [x |-> Unit, y |-> 0],
     [x |-> Unit, y |-> Unit], [x |-> 6, y |-> 4], [x |-> Unit \div 2, y |-> Unit \div 2]}

Offsets == (-MaxOffset..MaxOffset) \cup {I32_MAX, -I32_MAX}

\* Cursor positions: the clicks, or the cursor off the view.
Hovers == {Some(pos) : pos \in Clicks} \cup {None}

\* Camera transforms handed to update_floating_origin: the identity, and the
\* reverse of a camera 3 away from the origin.
Cameras == {SpinorOne, Reverse(Translation(3 * Unit, 0))}

(***************************************************************************)
(* The never-closing walk.  With two opposite directions the walk from the *)
(* seed alternates dir and the reverse of the opposite dir, a step of      *)
(* (0, 1) each time, and appends a point at every pass until the ceiling.  *)
(* LineWalk(n) is make_board's state after n points of that walk: the      *)
(* specifications of the ceiling start from it a few points short of the   *)
(* ceiling, and LineWalkReached checks, on the walk made pass by pass from *)
(* the seed, that make_board is in exactly that state.                     *)
(***************************************************************************)
LineTiling == Tiling(2, 3)

LineTransform(m) == [s |-> Unit, xy |-> 0, yw |-> m * (Unit \div 2), wx |-> 0]

LinePoint(m, n) ==
    [pos |-> [x |-> 0, y |-> m * Unit],
     transform |-> LineTransform(m),
     relative_transform |-> LineTransform(m),
     neighbors |-> (IF m > 0 THEN <<m - 1, m - 1>> ELSE <<>>)
                     \o (IF m + 1 < n THEN <<m + 1, m + 1>> ELSE <<>>),
     ty |-> "Empty",
     reversed |-> (m % 2 = 1)]

LinePoints(n) == [m \in 1..n |-> LinePoint(m - 1, n)]

LineLinks(n) == [m \in 1..(2 * (n - 1)) |-> <<(m - 1) \div 2, (m - 1) \div 2 + 1>>]

LineGen(n) ==
    [ring |-> 1, start_i |-> 0, l |-> 1, i |-> 0, j |-> 0, k |-> n - 1,
     cur_transform |-> LineTransform(n - 1), test_count |-> n]

CeilingStart == MAX_POINT_COUNT - 4

LineWalkReached ==
    (tiling = LineTiling /\ pc = "walk" /\ gen.test_count = CeilingStart)
        => /\ points = LinePoints(CeilingStart)
           /\ links = LineLinks(CeilingStart)
           /\ gen = LineGen(CeilingStart)
           /\ history = <<>> /\ history_idx = 0
           /\ call = NoCall /\ trip = NoTrip

InitWith(ts) ==
    /\ tiling \in ts
    /\ pc = "new"
    /\ gen = NoGen
    /\ points = <<>>
    /\ links = <<>>
    /\ history = <<>>
    /\ history_idx = 0
    /\ turn = "Black"
    /\ call = NoCall
    /\ trip = NoTrip
    /\ hover_idx = -1
    /\ needs_render = FALSE
    /\ geo = NoGeo
    /\ view_state = ViewStateNew

\* make_board in the never-closing walk, CeilingStart points made.
InitLineWalk ==
    /\ tiling = LineTiling
    /\ pc = "walk"
    /\ gen = LineGen(CeilingStart)
    /\ points = LinePoints(CeilingStart)
    /\ links = LineLinks(CeilingStart)
    /\ history = <<>>
    /\ history_idx = 0
    /\ turn = "Black"
    /\ call = NoCall
    /\ trip = NoTrip
    /\ hover_idx = -1
    /\ needs_render = FALSE
    /\ geo = NoGeo
    /\ view_state = ViewStateNew

Init == InitWith(Tilings)

\* A board that closes, and the never-closing walk short of the ceiling.
InitCeiling == InitWith({Tiling(1, 5)}) \/ InitLineWalk

\* make_board alone: every tiling of the model from the start, the
\* never-closing walk also from short of the ceiling.
InitMakeBoard == InitWith(Tilings \cup CeilingTilings) \/ InitLineWalk

NextMakeBoard ==
    \/ MakeBoard
    \/ WalkSkip
    \/ WalkBreak
    \/ WalkAppend

Next ==
    \/ NextMakeBoard
    \/ \E pos \in Clicks : SelectPoint(pos)
    \/ \E offset \in Offsets : MoveHistoryCall(offset)
    \/ \E offset \in Offsets : MoveHistoryOverflow(offset)

\* The calls of play, to MaxViewMoves moves deep, together with those of the view.
NextView ==
    \/ Next /\ history_idx' <= MaxViewMoves
    \/ \E maybe_pos \in Hovers : CheckHoverPoint(maybe_pos)
    \/ \E camera_r \in Cameras : UpdateFloatingOrigin(camera_r)
    \/ Render

Spec == Init /\ [][Next]_vars

SpecCeiling == InitCeiling /\ [][Next]_vars

SpecView == Init /\ [][NextView]_vars

SpecMakeBoard == InitMakeBoard /\ [][NextMakeBoard]_vars

\* The length of the drags drawn: 2.2.
DragLen == 2 * Unit + 2 * SPEED

\* The keys held and the drag under way during a tick.
NoKeys == [back |-> FALSE, forward |-> FALSE, left |-> FALSE, right |-> FALSE,
           cw |-> FALSE, ccw |-> FALSE, drag |-> None]

\* A drag of the cursor 2.2 across the view, either way.
Drags ==
    {Some([pos_from |-> [x |-> 0, y |-> 0], cursor_pos |-> [x |-> 0, y |-> -DragLen]]),
     Some([pos_from |-> [x |-> 0, y |-> -DragLen], cursor_pos |-> [x |-> 0, y |-> 0]])}

Inputs ==
    {NoKeys,
     [NoKeys EXCEPT !.forward = TRUE], [NoKeys EXCEPT !.back = TRUE],
     [NoKeys EXCEPT !.back = TRUE, !.forward = TRUE],
     [NoKeys EXCEPT !.left = TRUE], [NoKeys EXCEPT !.right = TRUE],
     [NoKeys EXCEPT !.left = TRUE, !.right = TRUE],
     [NoKeys EXCEPT !.cw = TRUE], [NoKeys EXCEPT !.ccw = TRUE],
     [NoKeys EXCEPT !.forward = TRUE, !.left = TRUE, !.cw = TRUE]}
        \cup {[NoKeys EXCEPT !.drag = d] : d \in Drags}

\* The square board and the two-point board under a moving camera.
InitUpdate == InitWith({Tiling(4, 3), Tiling(1, 3)})

NextUpdate ==
    \/ NextMakeBoard
    \/ \E input \in Inputs : Update(input)
    \/ ResetCamera

SpecUpdate == InitUpdate /\ [][NextUpdate]_vars

\* make_board on the flat square tiling, every edge_len up to MaxSquareEdge.
InitSquare == InitWith({Tiling(4, e) : e \in 1..MaxSquareEdge})

SpecSquare == InitSquare /\ [][NextMakeBoard]_vars

(***************************************************************************)
(* The spinor operations on their own: an isometry g and a point v of one  *)
(* geometry are drawn, and one step applies the operations to them.        *)
(***************************************************************************)
\* Unit-norm isometries of the flat plane: a rotation by half turns (s, xy
\* of 0, 1 or -1) followed by a translation.
EuclidianIsometries ==
    {SpinorMul(Translation(amt * Unit, q), Rotation(h)) :
        amt \in 0..MaxAmt, q \in 0..3, h \in 0..3}

\* Points of the flat plane, on even tenths.
EuclidianPoints == {[x |-> 2 * a, y |-> 2 * b] : a \in -MaxAmt..MaxAmt, b \in -MaxAmt..MaxAmt}

\* Spinor::new for SpinorHyperbolic, on fractions.
HyperbolicNew(s, xy, yw, wx) == [s |-> s, xy |-> xy, yw |-> yw, wx |-> wx]

\* Unit-norm isometries of the hyperbolic plane: translations (s^2 - yw^2 -
\* wx^2 = 1), rotations (s^2 + xy^2 = 1) and their products.
HyperbolicTranslations ==
    {HyperbolicOne,
     HyperbolicNew(Q(5, 4), QInt(0), Q(3, 4), QInt(0)),
     HyperbolicNew(Q(5, 4), QInt(0), QInt(0), Q(-3, 4)),
     HyperbolicNew(Q(13, 12), QInt(0), Q(1, 4), Q(1, 3))}

HyperbolicRotations ==
    {HyperbolicOne,
     HyperbolicNew(Q(3, 5), Q(4, 5), QInt(0), QInt(0)),
     HyperbolicNew(QInt(0), QInt(1), QInt(0), QInt(0))}

HyperbolicIsometries ==
    {HyperbolicMul(t, r) : t \in HyperbolicTranslations, r \in HyperbolicRotations}

\* PointHyperbolic::from_projective: points with w^2 = 1 + x^2 + y^2.
HyperbolicPoints ==
    {[x |-> QInt(0), y |-> QInt(0), w |-> QInt(1)],
     [x |-> QInt(2), y |-> QInt(2), w |-> QInt(3)],
     [x |-> QInt(2), y |-> QInt(-2), w |-> QInt(3)],
     [x |-> QInt(-8), y |-> QInt(4), w |-> QInt(9)],
     [x |-> Q(3, 4), y |-> QInt(0), w |-> Q(5, 4)],
     [x |-> QInt(3), y |-> Q(3, 2), w |-> Q(7, 2)],
     [x |-> Q(9, 8), y |-> Q(12, 8), w |-> Q(17, 8)],
     [x |-> QInt(0), y |-> Q(-15, 8), w |-> Q(17, 8)]}

\* The roots translation_to takes of v are roots of squares of fractions.
ExactRoots(v) ==
    LET a == QMul(QInt(2), QAdd(v.w, QInt(1)))
        b == QMul(Q(1, 2), QAdd(v.w, QInt(1)))
    IN  QMul(QSqrt(a), QSqrt(a)) = a /\ QMul(QSqrt(b), QSqrt(b)) = b

InitGeometry ==
    /\ tiling = Tiling(1, 1)
    /\ pc = "geometry"
    /\ gen = NoGen
    /\ points = <<>>
    /\ links = <<>>
    /\ history = <<>>
    /\ history_idx = 0
    /\ turn = "Black"
    /\ call = NoCall
    /\ trip = NoTrip
    /\ hover_idx = -1
    /\ needs_render = FALSE
    /\ view_state = ViewStateNew
    /\ \/ \E g \in EuclidianIsometries : \E v \in EuclidianPoints :
              geo = [op |-> "drawn", space |-> "euclidian", g |-> g, v |-> v]
       \/ \E g \in HyperbolicIsometries : \E v \in HyperbolicPoints :
              geo = [op |-> "drawn", space |-> "hyperbolic", g |-> g, v |-> v]

\* g.reverse() * g, that product applied to v, and g.reverse() applied to
\* g applied to v.
ReverseCompose ==
    /\ pc = "geometry"
    /\ geo.op = "drawn"
    /\ geo' = IF geo.space = "euclidian"
              THEN [geo EXCEPT !.op = "reverse",
                       !.v = [prod |-> SpinorMul(Reverse(geo.g), geo.g),
                              moved |-> Apply(SpinorMul(Reverse(geo.g), geo.g), geo.v),
                              back |-> Apply(Reverse(geo.g), Apply(geo.g, geo.v)),
                              v |-> geo.v]]
              ELSE [geo EXCEPT !.op = "reverse",
                       !.v = [prod |-> HyperbolicMul(HyperbolicReverse(geo.g), geo.g),
                              moved |-> HyperbolicApply(
                                            HyperbolicMul(HyperbolicReverse(geo.g), geo.g),
                                            geo.v),
                              back |-> HyperbolicApply(HyperbolicReverse(geo.g),
                                                       HyperbolicApply(geo.g, geo.v)),
                              v |-> geo.v]]
    /\ UNCHANGED <<tiling, view_state, pc, gen, points, links, history, history_idx,
                   turn, call, trip, hover_idx, needs_render>>

\* translation_to(v) applied to zero, and its reverse applied to v.
TranslateTo ==
    /\ pc = "geometry"
    /\ geo.op = "drawn"
    /\ geo.space = "hyperbolic" => ExactRoots(geo.v)
    /\ geo' = IF geo.space = "euclidian"
              THEN [geo EXCEPT !.op = "translation_to",
                       !.g = TranslationTo(geo.v),
                       !.v = [there |-> Apply(TranslationTo(geo.v), PointZero),
                              back |-> Apply(Reverse(TranslationTo(geo.v)), geo.v),
                              v |-> geo.v]]
              ELSE [geo EXCEPT !.op = "translation_to",
                       !.g = HyperbolicTranslationTo(geo.v),
                       !.v = [there |-> HyperbolicApply(HyperbolicTranslationTo(geo.v),
                                                        HyperbolicZero),
                              back |-> HyperbolicApply(
                                           HyperbolicReverse(HyperbolicTranslationTo(geo.v)),
                                           geo.v),
                              v |-> geo.v]]
    /\ UNCHANGED <<tiling, view_state, pc, gen, points, links, history, history_idx,
                   turn, call, trip, hover_idx, needs_render>>

NextGeometry ==
    \/ ReverseCompose
    \/ TranslateTo

SpecGeometry == InitGeometry /\ [][NextGeometry]_vars

(***************************************************************************)
(* The rules of the game, stated on a vector of stone states over the      *)
(* board graph (neighbour lists), independently of the search loops.       *)
(***************************************************************************)
Idx == 0..(Len(points) - 1)

Adjacent(a, b) == InSeq(b, points[a + 1].neighbors)

RECURSIVE GroupFrom(_, _)
GroupFrom(st, S) ==
    LET T == S \cup {b \in Idx : \E a \in S : Adjacent(a, b) /\ st[b + 1] = st[a + 1]}
    IN  IF T = S THEN S ELSE GroupFrom(st, T)

\* The connected group of same-coloured stones that holds a.
GroupOf(st, a) == GroupFrom(st, {a})

HasLiberty(st, G) == \E a \in G : \E b \in Idx : Adjacent(a, b) /\ st[b + 1] = "Empty"

Placed(st, p, t) == [st EXCEPT ![p + 1] = t]

\* The opposing stones next to p whose group has no liberty once t stands on p.
DeadNeighbors(st, p, t) ==
    {q \in Idx : /\ Adjacent(p, q)
                 /\ Placed(st, p, t)[q + 1] = Opponent(t)
                 /\ ~HasLiberty(Placed(st, p, t), GroupOf(Placed(st, p, t), q))}

\* t on p would stand in a group without liberty at the moment of placement.
NoOwnLiberty(st, p, t) == ~HasLiberty(Placed(st, p, t), GroupOf(Placed(st, p, t), p))

\* This step is a call of select_point that resolved to the Empty point p.
SelectsEmpty(p) ==
    /\ call'.op = "select_point"
    /\ call'.a = p
    /\ p >= 0
    /\ points[p + 1].ty = "Empty"

Last(seq) == seq[Len(seq)]

C2_SelfCaptureRejected ==
    [][\A p \in Idx :
          (/\ SelectsEmpty(p)
           /\ DeadNeighbors(Stones(points), p, turn) = {}
           /\ NoOwnLiberty(Stones(points), p, turn))
          => /\ ~call'.ret
             /\ points'[p + 1].ty = "Empty"
             /\ turn' = turn
             /\ history' = history]_vars

\* C2 witness: a rejected call on a point that is Empty, where the player to
\* move would have no liberty and capture nothing.
C2_Witness ==
    /\ call.op = "select_point" /\ ~call.ret /\ call.a >= 0
    /\ points[call.a + 1].ty = "Empty"
    /\ DeadNeighbors(Stones(points), call.a, turn) = {}
    /\ NoOwnLiberty(Stones(points), call.a, turn)

\* C3 (capture before self-capture): a placement whose own group has no
\* liberty at the moment of placement but which leaves an adjacent opposing
\* group without liberty is accepted: P keeps the colour, the captured stones
\* are Empty, the turn advances and a snapshot of the result is saved.
C3_CaptureBeforeSelfCapture ==
    [][\A p \in Idx :
          (/\ SelectsEmpty(p)
           /\ NoOwnLiberty(Stones(points), p, turn)
           /\ DeadNeighbors(Stones(points), p, turn) # {})
          => /\ call'.ret
             /\ points'[p + 1].ty = turn
             /\ \A q \in DeadNeighbors(Stones(points), p, turn) :
                    points'[q + 1].ty = "Empty"
             /\ turn' = Opponent(turn)
             /\ history_idx' = history_idx + 1
             /\ Len(history') = history_idx' + 1
             /\ Last(history') = Stones(points')]_vars

\* C3 witness: an accepted placement whose stone had, on the previous
\* snapshot, neither a liberty nor a friend with one.
C3_Witness ==
    /\ call.op = "select_point" /\ call.ret
    /\ history_idx >= 1 /\ history_idx + 1 = Len(history)
    /\ NoOwnLiberty(history[history_idx], call.a, points[call.a + 1].ty)
    /\ points[call.a + 1].ty = Opponent(turn)

\* C4 (rejection changes nothing): a select_point that is rejected, because
\* the point found is occupied, because no point is within STONE_RADIUS, or
\* as a self-capture, leaves the stones, the player, the history and the
\* cursor as they were.
C4_RejectionUnchanged ==
    [][(/\ call'.op = "select_point"
        /\ \/ ~call'.ret
           \/ call'.a = -1
           \/ (call'.a >= 0 /\ points[call'.a + 1].ty # "Empty")
           \/ (/\ call'.a >= 0
               /\ points[call'.a + 1].ty = "Empty"
               /\ DeadNeighbors(Stones(points), call'.a, turn) = {}
               /\ NoOwnLiberty(Stones(points), call'.a, turn)))
       => /\ ~call'.ret
          /\ points' = points
          /\ turn' = turn
          /\ history' = history
          /\ history_idx' = history_idx]_vars

\* C4 witness: a call rejected on an occupied point, after an accepted move.
C4_Witness ==
    /\ call.op = "select_point" /\ ~call.ret /\ call.a >= 0
    /\ points[call.a + 1].ty # "Empty"
    /\ history_idx >= 1

\* C5 (only accepted moves advance): the first player is Black; an accepted
\* select_point flips the player, moves the cursor up by one and appends one
\* snapshot, the stones after the captures, to the snapshots kept; a rejected
\* one changes neither player, cursor nor history.
C5_OnlyAcceptedAdvance ==
    [][/\ (pc # "play" /\ pc' = "play") => turn' = "Black"
       /\ (call'.op = "select_point" /\ call'.ret)
          => /\ turn' = Opponent(turn)
             /\ history_idx' = history_idx + 1
             /\ Len(history') >= 1
             /\ Len(history') <= Len(history) + 1
             /\ Last(history') = Stones(points')
             /\ \A n \in 1..(Len(history') - 1) : history'[n] = history[n]
       /\ (call'.op = "select_point" /\ ~call'.ret)
          => /\ turn' = turn
             /\ history_idx' = history_idx
             /\ history' = history]_vars

\* C5 witness: Black's first move is accepted and White is to move.
C5_Witness ==
    /\ call.op = "select_point" /\ call.ret
    /\ history_idx = 1 /\ Len(history) = 2
    /\ turn = "White"
    /\ history[2] = Stones(points)

\* C6 (undo/redo round trip): after N accepted moves of a new game and no
\* navigation, move_history(-N) and then move_history(N) leave the stones and
\* the cursor as they were right after move N.
C6_RoundTrip ==
    trip.stage = "redone" => (Stones(points) = trip.ty /\ history_idx = trip.idx)

\* C7 (out-of-range navigation): move_history(offset) with cursor + offset
\* outside 0 .. length - 1 changes neither cursor, stones nor history and
\* raises no error.
C7_OutOfRangeNoOp ==
    [][(/\ pc = "play"
        /\ call'.op = "move_history"
        /\ \/ call'.a < -history_idx
           \/ call'.a > Len(history) - 1 - history_idx)
       => /\ pc' = "play"
          /\ history_idx' = history_idx
          /\ points' = points
          /\ history' = history]_vars

C9_CursorInRange ==
    pc = "play" => (0 <= history_idx /\ history_idx < Len(history))

\* What is left for make_board's loops to do: points it may still append,
\* (i, j) pairs it may still walk from, and the one skip allowed at k = 0.
Rank(g) ==
    2 * (MAX_POINT_COUNT - g.test_count)
      + 2 * ((MAX_POINT_COUNT - g.i) * tiling.tp.around_vertex - g.j)
      + (IF g.k = 0 THEN 1 ELSE 0)

SameWalk == gen'.ring = gen.ring /\ gen'.i = gen.i /\ gen'.j = gen.j

\* C10 (make_board terminates): every pass of the innermost loop appends a
\* point, skips once at k = 0, or breaks on to a later (i, j) or out of the
\* loops; what is left to do shrinks with every pass; there are never more
\* than 2500 points, and at 2500 the board built so far is returned.
C10_MakeBoardTerminates ==
    [][/\ pc = "walk" =>
          \/ /\ Len(points') = Len(points) + 1
             /\ \A n \in 1..Len(points) : points'[n].pos = points[n].pos
             /\ \/ pc' = "walk" /\ SameWalk /\ gen'.k = gen.k + 1
                \/ pc' = "play" /\ Len(points') = MAX_POINT_COUNT
          \/ /\ points' = points
             /\ gen.k = 0 /\ gen'.k = 1
             /\ pc' = "walk" /\ SameWalk
          \/ /\ points' = points
             /\ gen.k > 0
             /\ \/ pc' = "play"
                \/ /\ pc' = "walk" /\ gen'.k = 0
                   /\ \/ gen'.i > gen.i
                      \/ gen'.i = gen.i /\ gen'.j > gen.j
       /\ (pc = "walk" /\ pc' = "walk") => (0 <= Rank(gen') /\ Rank(gen') < Rank(gen))
       /\ pc' = "walk" => Len(points') < MAX_POINT_COUNT
       /\ Len(points') <= MAX_POINT_COUNT
       /\ pc = "new" => pc' \in {"walk", "play", "panic"}]_vars

\* C10 witness: make_board returned a board of 2500 points.
C10_Witness == pc = "play" /\ Len(points) = MAX_POINT_COUNT /\ tiling.edge_len % 2 = 1

\* The board was made to the end of make_board's loops, not cut at the ceiling.
BoardFinished == pc = "play" /\ Len(history) >= 1

\* The points of the board that stand one step from point n in one of the
\* around_vertex directions of the tiling.
StepsFrom(n) ==
    {FindPoint(points,
               Apply(SpinorMul(points[n + 1].transform,
                               NeighborDirections(tiling.tp)[d]), PointZero),
               NeighborNum, NeighborDen) : d \in 1..tiling.tp.around_vertex}

\* A point on the boundary lacks the board point in some direction.
OnBoundary(n) == -1 \in StepsFrom(n)

\* C11 (neighbour count): on a finished board of the square tiling every
\* point off the boundary has exactly around_vertex entries in its neighbour
\* list, and every boundary point has fewer.
C11_NeighborCount ==
    (BoardFinished /\ tiling.tp.around_vertex = 4)
        => \A n \in Idx :
               IF OnBoundary(n)
               THEN Len(points[n + 1].neighbors) < tiling.tp.around_vertex
               ELSE Len(points[n + 1].neighbors) = tiling.tp.around_vertex

\* C12 (adjacency symmetry): at every point of the generation and on the
\* board it returns, B is in A's neighbour list exactly when A is in B's, and
\* the two ends of every link list each other.
C12_AdjacencySymmetry ==
    /\ \A a \in Idx : \A b \in Idx : Adjacent(a, b) <=> Adjacent(b, a)
    /\ \A n \in 1..Len(links) :
           /\ links[n][1] \in Idx /\ links[n][2] \in Idx
           /\ Adjacent(links[n][1], links[n][2])
           /\ Adjacent(links[n][2], links[n][1])

\* C12 witness: in the middle of the generation, a point with neighbours on
\* several sides.
C12_Witness ==
    /\ pc = "walk"
    /\ Len(links) >= 4
    /\ \E a \in Idx : \E b \in Idx : \E c \in Idx :
           b # c /\ Adjacent(a, b) /\ Adjacent(a, c)

\* C13 (even edge_len): make_board with an even edge_len stops at its
\* assertion: no point, link or snapshot is ever made and no board is
\* returned, for this size or for a rounded one.
C13_EvenEdgeLenRejected ==
    (tiling.edge_len % 2 = 0)
        => /\ pc \in {"new", "panic"}
           /\ points = <<>> /\ links = <<>> /\ history = <<>>

\* C13 witness: make_board was called with an even edge_len and panicked.
C13_Witness == tiling.edge_len % 2 = 0 /\ pc = "panic" /\ call = NoCall

\* The fields of a point that make the board's topology.
Topology(pts) ==
    [n \in 1..Len(pts) |->
        [pos |-> pts[n].pos, transform |-> pts[n].transform,
         neighbors |-> pts[n].neighbors, reversed |-> pts[n].reversed]]

Recentred == \E n \in 1..Len(points) : points[n].relative_transform # points[n].transform

\* C14 (topology is immutable): once the board is made, no call of
\* select_point, check_hover_point, move_history or update_floating_origin
\* changes the number or order of the points, a neighbour list, a transform, a
\* position, a reversed flag or the links.
C14_TopologyImmutable ==
    [][pc = "play" => (Topology(points') = Topology(points) /\ links' = links)]_vars

\* C14 witness: a move is accepted on a board that was recentred.
C14_Witness ==
    /\ call.op = "select_point" /\ call.ret
    /\ Recentred
    /\ Len(points) > 2

\* What a select_point at pos would do to the game from the board pts.
Outcome(pts, pos) ==
    LET r == TrySelectPoint(pts, history, history_idx, turn, pos)
    IN  [ret |-> r.ret, i |-> r.i, stones |-> Stones(r.points),
         history |-> r.history, history_idx |-> r.history_idx]

\* C15 (recentring touches the cache only): update_floating_origin changes
\* relative_transform and needs_render and nothing else: stones, player,
\* history and cursor are as before, and a select_point at any position does
\* after it what it would have done before it.
C15_FloatingOriginFrame ==
    [][call'.op = "update_floating_origin"
       => /\ Stones(points') = Stones(points)
          /\ Topology(points') = Topology(points)
          /\ turn' = turn
          /\ history' = history
          /\ history_idx' = history_idx
          /\ hover_idx' = hover_idx
          /\ links' = links
          /\ \A pos \in Clicks : Outcome(points', pos) = Outcome(points, pos)]_vars

\* C15 witness: the board was recentred with stones on it.
C15_Witness ==
    /\ call.op = "update_floating_origin"
    /\ Recentred
    /\ history_idx >= 1
    /\ \E n \in 1..Len(points) : points[n].ty # "Empty"

\* The points within STONE_RADIUS of pos: 10 * distance <= 4, squared.
WithinStoneRadius(pos) ==
    {n \in Idx : StoneRadiusDen * StoneRadiusDen * Distance2(pos, points[n + 1].pos)
                     <= STONE_RADIUS * STONE_RADIUS * Unit * Unit}

GeoZero == IF geo.space = "euclidian" THEN PointZero ELSE HyperbolicZero

GeoOne == IF geo.space = "euclidian" THEN SpinorOne ELSE HyperbolicOne

GeoUnitNorm ==
    IF geo.space = "euclidian" THEN Magnitude2(geo.g) = Unit
                               ELSE HyperbolicMagnitude2(geo.g) = QInt(1)

\* C17 (inverse round trip): for a unit-norm isometry g and a point v, flat
\* or hyperbolic, g.reverse() * g is the identity, it maps v to v, and
\* g.reverse() applied to g applied to v is v.
C17_ReverseRoundTrip ==
    (geo.op = "reverse" /\ GeoUnitNorm)
        => /\ geo.v.prod = GeoOne
           /\ geo.v.moved = geo.v.v
           /\ geo.v.back = geo.v.v

\* C17 witness: the round trip was made in the hyperbolic plane by an
\* isometry that rotates and translates, from a point off the origin.
C17_Witness ==
    /\ geo.op = "reverse"
    /\ geo.space = "hyperbolic"
    /\ GeoUnitNorm
    /\ geo.g.xy # QInt(0) /\ geo.g.yw # QInt(0)
    /\ geo.v.v # HyperbolicZero

\* C18 (translation_to): translation_to(v) maps zero to v and its reverse
\* maps v to zero, in the flat and in the hyperbolic plane.
C18_TranslationTo ==
    geo.op = "translation_to"
        => /\ geo.v.there = geo.v.v
           /\ geo.v.back = GeoZero

\* C18 witness: translation_to was applied to a hyperbolic point off both
\* axes.
C18_Witness ==
    /\ geo.op = "translation_to"
    /\ geo.space = "hyperbolic"
    /\ geo.v.v.x # QInt(0) /\ geo.v.v.y # QInt(0)
    /\ geo.g.s # QInt(1)

\* The five results of a placement attempt on the point of index a (-1: no
\* point), told from the position before the attempt by the rules of the game.
AttemptKind(a) ==
    IF a < 0
    THEN "RejectedOffBoard"
    ELSE IF points[a + 1].ty # "Empty"
         THEN "RejectedOccupied"
         ELSE IF DeadNeighbors(Stones(points), a, turn) # {}
              THEN "CapturedAndAccepted"
              ELSE IF NoOwnLiberty(Stones(points), a, turn)
                   THEN "RejectedSelfCapture"
                   ELSE "AcceptedNoCapture"

\* The point a click at pos is about, or -1.
PointAt(pos) ==
    IF WithinStoneRadius(pos) = {} THEN -1 ELSE CHOOSE n \in WithinStoneRadius(pos) : TRUE

C20_OnlyDeadGroupsRemoved ==
    [][/\ \A p \in Idx : \A q \in Idx :
              LET st == Placed(Stones(points), p, turn)
                  G  == GroupOf(st, q)
              IN  (/\ SelectsEmpty(p)
                   /\ st[q + 1] = Opponent(turn)
                   /\ \/ HasLiberty(st, G)
                      \/ ~\E g \in G : Adjacent(p, g))
                  => points'[q + 1].ty = Opponent(turn)
       /\ (call'.op = "select_point" /\ ~\E p \in Idx : SelectsEmpty(p))
              => Stones(points') = Stones(points)]_vars

\* C20 witness: an accepted placement next to two opposing stones of the
\* previous snapshot, one of them captured by the move and one still there.
C20_Witness ==
    /\ call.op = "select_point" /\ call.ret
    /\ Len(points) > 2
    /\ history_idx >= 1 /\ history_idx + 1 = Len(history)
    /\ \E q \in Idx : \E r \in Idx :
           /\ Adjacent(call.a, q) /\ Adjacent(call.a, r)
           /\ history[history_idx][q + 1] = Opponent(points[call.a + 1].ty)
           /\ history[history_idx][r + 1] = Opponent(points[call.a + 1].ty)
           /\ points[q + 1].ty = "Empty"
           /\ points[r + 1].ty = Opponent(points[call.a + 1].ty)

\* C21 (deduplication): in every state of make_board and of the finished
\* board no two distinct points lie within 1e-3 of each other, and a step
\* that appends a point appends one that find_point, at 1e-3, found nowhere
\* among the points already there.
C21_Deduplication ==
    /\ [](\A a \in 1..Len(points) : \A b \in 1..Len(points) :
             a # b => Distance2(points[a].pos, points[b].pos)
                          > Reach2(DedupNum, DedupDen))
    /\ [][Len(points') > Len(points)
             => /\ Len(points') = Len(points) + 1
                /\ FindPoint(points, points'[Len(points')].pos, DedupNum, DedupDen) = -1]_vars

\* C21 witness: make_board, several points made, stands at a candidate whose
\* position is that of an existing point.
C21_Witness ==
    /\ pc = "walk"
    /\ Len(points) > 1
    /\ WalkFound(gen, tiling.tp, points) # -1
    /\ Apply(WalkTransform(gen, tiling.tp, points), PointZero)
           = points[WalkFound(gen, tiling.tp, points) + 1].pos

RECURSIVE ReachedFrom(_)
\* The indices reached from those of S through neighbour lists.
ReachedFrom(S) ==
    LET T == S \cup {b \in Idx : \E a \in S : Adjacent(a, b)}
    IN  IF T = S THEN S ELSE ReachedFrom(T)

\* C22 (connected graph): a step that appends a point other than the seed
\* appends it with a neighbour of smaller index, which lists it in turn and
\* shares a link with it; and in every state every point is reached from the
\* seed through neighbour lists.
C22_Connected ==
    /\ [][(Len(points') > Len(points) /\ Len(points) > 0)
             => \E m \in 0..(Len(points) - 1) :
                    /\ InSeq(m, points'[Len(points')].neighbors)
                    /\ InSeq(Len(points), points'[m + 1].neighbors)
                    /\ InSeq(<<m, Len(points)>>, links')]_vars
    /\ [](Len(points) > 0 => ReachedFrom({0}) = Idx)

\* C22 witness: a finished board of the square tiling whose last point, a
\* corner two links away from the seed, has a neighbour of smaller index.
C22_Witness ==
    /\ pc = "play"
    /\ Len(points) > 2
    /\ ~Adjacent(0, Len(points) - 1)
    /\ \E m \in 0..(Len(points) - 2) : Adjacent(Len(points) - 1, m)

\* C23 (recentring): on an update tick whose camera, after the tick's
\* motion, stands more than 2.0 from the floating origin, the floating origin
\* becomes the camera and every relative_transform becomes camera.reverse() *
\* transform; on any other tick neither changes; and at the end of the tick
\* the camera stands at most 2.0 from the floating origin.
C23_Recentring ==
    [][call'.op = "update" =>
          /\ IF SpinorDistance2(view_state'.camera, view_state.floating_origin)
                    > RecentreDistance * RecentreDistance * Unit * Unit
             THEN /\ view_state'.floating_origin = view_state'.camera
                  /\ \A n \in 1..Len(points) :
                         points'[n].relative_transform
                             = SpinorMul(Reverse(view_state'.camera), points[n].transform)
             ELSE /\ view_state'.floating_origin = view_state.floating_origin
                  /\ \A n \in 1..Len(points) :
                         points'[n].relative_transform = points[n].relative_transform
          /\ SpinorDistance2(view_state'.camera, view_state'.floating_origin)
                 <= RecentreDistance * RecentreDistance * Unit * Unit]_vars

\* C23 witness: a tick has just moved the floating origin of the square
\* board to a camera more than 2.0 from the origin of the board.
C23_Witness ==
    /\ call.op = "update"
    /\ Len(points) > 2
    /\ view_state.floating_origin = view_state.camera
    /\ SpinorDistance2(view_state.camera, SpinorOne)
           > RecentreDistance * RecentreDistance * Unit * Unit
    /\ \A n \in 1..Len(points) :
           /\ points[n].relative_transform # points[n].transform
           /\ points[n].relative_transform
                  = SpinorMul(Reverse(view_state.camera), points[n].transform)

\* The sites of the n-by-n square lattice of unit step centred on the seed.
Lattice(n) ==
    {[x |-> a * Unit, y |-> b * Unit] : a \in -(n \div 2)..(n \div 2),
                                        b \in -(n \div 2)..(n \div 2)}

\* C24 (square board): for the flat square tiling and odd edge_len n the
\* loops of make_board end in ring n / 2 and never pass it, and the board
\* they leave has n * n points, one on each site of the n-by-n lattice
\* centred on the seed; for n = 1 it is the seed alone, without links.
C24_SquareBoard ==
    /\ []((pc = "play" /\ tiling.tp.around_vertex = 4)
             => /\ Len(points) = tiling.edge_len * tiling.edge_len
                /\ {points[n].pos : n \in 1..Len(points)} = Lattice(tiling.edge_len)
                /\ points[1].pos = PointZero
                /\ tiling.edge_len = 1 => (links = <<>> /\ points[1].neighbors = <<>>))
    /\ []((pc = "walk" /\ tiling.tp.around_vertex = 4)
             => gen.ring \in 1..(tiling.edge_len \div 2))
    /\ [][(pc = "walk" /\ pc' = "play" /\ tiling.tp.around_vertex = 4)
             => gen.ring = tiling.edge_len \div 2]_vars

\* C24 witness: the finished board of the largest odd edge_len drawn, of
\* more than one ring.
C24_Witness ==
    /\ pc = "play"
    /\ tiling.tp.around_vertex = 4
    /\ tiling.edge_len \div 2 > 1
    /\ tiling.edge_len + 1 >= MaxSquareEdge
    /\ Len(points) = tiling.edge_len * tiling.edge_len

\* C25 (board and history agree): in every state of play on a board that
\* make_board generated to the end, every snapshot has one entry per point,
\* the cursor stands on a snapshot, and the stones on the board are those
\* of the snapshot under the cursor.
C25_BoardIsCursorSnapshot ==
    pc = "play"
        => /\ \A n \in 1..Len(history) : Len(history[n]) = Len(points)
           /\ history_idx \in 0..(Len(history) - 1)
           /\ Stones(points) = history[history_idx + 1]

\* C25 witness: after some moves the cursor has been moved onto a snapshot
\* that is neither the first nor the last, and the board holds its stones,
\* not those of the last snapshot.
C25_Witness ==
    /\ pc = "play"
    /\ call.op = "move_history"
    /\ history_idx > 0 /\ history_idx + 1 < Len(history)
    /\ \E n \in 1..Len(points) : points[n].ty # "Empty"
    /\ Stones(points) # history[Len(history)]

\* Every group of stones of st has an adjacent Empty point.
AllGroupsAlive(st) ==
    \A a \in Idx : st[a + 1] # "Empty" => HasLiberty(st, GroupOf(st, a))

\* C26 (no dead group observable): in every state of play, on the board and
\* in every snapshot of the history, each connected group of stones of one
\* colour has an adjacent Empty point.
C26_NoDeadGroup ==
    pc = "play"
        => /\ AllGroupsAlive(Stones(points))
           /\ \A n \in 1..Len(history) : AllGroupsAlive(history[n])

\* C26 witness: select_point has just rejected a stone on an Empty point all
\* of whose neighbours hold the other colour, where it would have stood
\* without liberty.
C26_Witness ==
    /\ pc = "play"
    /\ call.op = "select_point" /\ ~call.ret /\ call.a >= 0
    /\ points[call.a + 1].ty = "Empty"
    /\ points[call.a + 1].neighbors # <<>>
    /\ \A q \in Idx : Adjacent(call.a, q) => points[q + 1].ty = Opponent(turn)
    /\ AllGroupsAlive(Stones(points))

\* C27 (turn and cursor agree): in every state of play Black is to move
\* exactly when the history cursor is even, and White exactly when it is odd.
C27_TurnMatchesCursor ==
    pc = "play" => (turn = (IF history_idx % 2 = 0 THEN "Black" ELSE "White"))

\* C28 (link uniqueness): in the board make_board returns no point lists
\* itself as a neighbour, no neighbour list holds an index twice, and no
\* two entries of links join the same two points.
C28_LinkUniqueness ==
    pc = "play"
        => /\ \A a \in Idx : ~Adjacent(a, a)
           /\ \A a \in Idx : \A m \in 1..Len(points[a + 1].neighbors) :
                  \A n \in 1..Len(points[a + 1].neighbors) :
                      m # n => points[a + 1].neighbors[m] # points[a + 1].neighbors[n]
           /\ \A m \in 1..Len(links) : \A n \in 1..Len(links) :
                  m # n => {links[m][1], links[m][2]} # {links[n][1], links[n][2]}

\* C29 (floating origin consistent): in every state, whatever the camera has
\* done and whenever the origin was last recentred, for every point
\* floating_origin * relative_transform is the point's transform, and the
\* view transform camera.reverse() * floating_origin followed by
\* relative_transform is camera.reverse() * transform.
C29_FloatingOriginConsistent ==
    \A n \in 1..Len(points) :
        /\ SpinorMul(view_state.floating_origin, points[n].relative_transform)
               = points[n].transform
        /\ SpinorMul(GetCameraMat(view_state), points[n].relative_transform)
               = SpinorMul(Reverse(view_state.camera), points[n].transform)

\* C29 witness: the square board seen from a camera that has turned and moved
\* since the floating origin was recentred away from the origin of the board.
C29_Witness ==
    /\ pc = "play"
    /\ Len(points) > 2
    /\ view_state.floating_origin # SpinorOne
    /\ view_state.camera # view_state.floating_origin
    /\ view_state.camera.xy # view_state.floating_origin.xy
    /\ Apply(view_state.camera, PointZero) # Apply(view_state.floating_origin, PointZero)
    /\ \A n \in 1..Len(points) : points[n].relative_transform # points[n].transform

\* C30 (own stones stay): after a select_point by colour X accepted at P, P
\* holds X, every point that held X before holds it still, and every other
\* point that changed went from the other colour to Empty.
C30_OwnStonesStay ==
    [][(call'.op = "select_point" /\ call'.ret)
          => /\ call'.a >= 0
             /\ points'[call'.a + 1].ty = turn
             /\ \A n \in 1..Len(points) :
                    /\ points[n].ty = turn => points'[n].ty = turn
                    /\ (points'[n].ty # points[n].ty /\ n # call'.a + 1)
                           => (points[n].ty = Opponent(turn) /\ points'[n].ty = "Empty")]_vars

\* C30 witness: an accepted placement that captured a stone while another
\* stone of the placing colour, on the board before the move, is still there.
C30_Witness ==
    /\ call.op = "select_point" /\ call.ret
    /\ history_idx >= 1 /\ history_idx + 1 = Len(history)
    /\ \E q \in Idx : \E r \in Idx :
           /\ r # call.a
           /\ history[history_idx][q + 1] = Opponent(points[call.a + 1].ty)
           /\ points[q + 1].ty = "Empty"
           /\ history[history_idx][r + 1] = points[call.a + 1].ty
           /\ points[r + 1].ty = points[call.a + 1].ty

====
